---- MODULE Spec2Model ----
(***************************************************************************)
(* Model of the A7 edge request expansion (edge/src/actions/expand.ts).    *)
(*                                                                         *)
(* Strings are sequences of tokens: "/", "@" and "." are the separators    *)
(* the parsers split on, every other token is an opaque run of characters. *)
(* A request URI such as /a@1.0.0/x.min.js is                              *)
(*   << "/", "a", "@", "1", ".", "0", ".", "0", "/", "x", ".", "min",      *)
(*      ".", "js" >>.                                                      *)
(* A JavaScript value that may be undefined is a sequence of length 0 or 1.*)
(***************************************************************************)
EXTENDS Integers, Sequences, FiniteSets, TLC

VARIABLES
  catalog,      \* what allStoredAssets(r) returns: sequence of [name, defaultPath]
  files,        \* the storage volume: FilePaths -> "absent" | "empty" | "full"
  serveFiles,   \* r.variables.serveFiles
  corsAll,      \* process.env.A7_CORS_ALL
  autoResolve,  \* process.env.A7_PATH_AUTO_RESOLVE
  pc,           \* "idle": no request in hand; "done": expand has returned
  uri,          \* r.uri of the request expand handled
  calls,        \* the terminal calls made on r, in order
  headersOut,   \* r.headersOut, a set of <<header, value>>
  listings,     \* number of calls of allStoredAssets(r)
  log,          \* the best-match lines findBestMatchingCandidate logged
  caught,       \* the catch block of expand ran: r.error(e) was called
  branch,       \* the branch of expand the request took
  initMode,     \* the value of A7_PATH_AUTO_EXPAND_INIT
  metadata,     \* the .directory.txt file of each directory of the volume
  visited,      \* what the loop of the metadata script found at each directory
  tasks,        \* the background directoryEntries task of each directory
  spc,          \* the position of the shell running the metadata script
  output        \* the lines the shell running the metadata script echoed

expandVars == <<catalog, files, serveFiles, corsAll, autoResolve, pc, uri, calls,
                headersOut, listings, log, caught, branch>>

scriptVars == <<initMode, metadata, visited, tasks, spc, output>>

vars == <<expandVars, scriptVars>>

(***************************************************************************)
(* Bounds and input sets                                                   *)
(***************************************************************************)
MaxCatalog == 2

Undefined == <<>>
Some(x) == <<x>>

\* values of an environment or nginx variable
EnvValues == {Undefined, Some(<<"true">>)}

\* JavaScript truthiness of a possibly undefined string
Truthy(v) == v /= Undefined /\ v[1] /= <<>>

Digits == <<"0", "1", "2", "3">>

\* Number.prototype.toString for the numbers of the model
NumToStr(n) == Digits[n + 1]

IsNumeric(tok) == \E i \in 1..Len(Digits) : Digits[i] = tok

\* parseInt of a numeric token
StrToNum(tok) == (CHOOSE i \in 1..Len(Digits) : Digits[i] = tok) - 1

RECURSIVE Join(_, _)
\* Array.prototype.join of token sequences
Join(parts, sep) ==
  IF parts = <<>> THEN <<>>
  ELSE IF Len(parts) = 1 THEN parts[1]
  ELSE parts[1] \o sep \o Join(Tail(parts), sep)

RECURSIVE Split(_, _)
\* String.prototype.split on a separator token
Split(s, sep) ==
  IF s = <<>> THEN << <<>> >>
  ELSE LET rest == Split(Tail(s), sep)
       IN  IF Head(s) = sep THEN << <<>> >> \o rest
           ELSE << <<Head(s)>> \o rest[1] >> \o Tail(rest)

\* index of the first occurrence of a token, 0 when there is none
IndexOf(s, tok) ==
  IF \E i \in 1..Len(s) : s[i] = tok
  THEN CHOOSE i \in 1..Len(s) : s[i] = tok /\ \A j \in 1..(i - 1) : s[j] /= tok
  ELSE 0

EndsWith(s, suffix) ==
  /\ Len(s) >= Len(suffix)
  /\ SubSeq(s, Len(s) - Len(suffix) + 1, Len(s)) = suffix

(***************************************************************************)
(* Asset identifiers: parser, serializer, comparator, predicate            *)
(***************************************************************************)

\* An Asset is [name, version, path]: name and path are token sequences
\* (empty when absent), version is the sequence of the present components
\* (major, minor, patch), 0 to 3 numbers.
Asset(name, version, path) == [name |-> name, version |-> version, path |-> path]

RECURSIVE parseVersion(_)
\* the components of a dot-split version: a malformed token makes its
\* component and all the following ones absent; at most three are kept
parseVersion(tokens) ==
  IF tokens = <<>> \/ Len(tokens[1]) /= 1 \/ ~IsNumeric(tokens[1][1]) THEN <<>>
  ELSE <<StrToNum(tokens[1][1])>> \o parseVersion(Tail(tokens))

\* the name@version segment of a URI or a storage name
parseSegment(segment, path) ==
  LET at       == IndexOf(segment, "@")
      name     == IF at = 0 THEN segment ELSE SubSeq(segment, 1, at - 1)
      verStr   == IF at = 0 THEN <<>> ELSE SubSeq(segment, at + 1, Len(segment))
      parsed   == IF verStr = <<>> THEN <<>> ELSE parseVersion(Split(verStr, "."))
      version  == IF Len(parsed) > 3 THEN SubSeq(parsed, 1, 3) ELSE parsed
  IN  Asset(name, version, path)

\* AssetNameParser.parseFromUrl: /name[@version][/path...]
parseFromUrl(u) ==
  LET s     == IF u /= <<>> /\ Head(u) = "/" THEN Tail(u) ELSE u
      slash == IndexOf(s, "/")
  IN  IF slash = 0 THEN parseSegment(s, <<>>)
      ELSE parseSegment(SubSeq(s, 1, slash - 1), SubSeq(s, slash, Len(s)))

\* AssetNameParser.parseFromStorageName: name@major.minor.patch
parseFromStorageName(storageName) == parseSegment(storageName, <<>>)

\* the version of an asset as a string, major.minor.patch
versionToString(version) ==
  Join([i \in 1..Len(version) |-> <<NumToStr(version[i])>>], <<".">>)

\* AssetNameSerializer.serializeAssetName: name@major.minor.patch; fails on
\* undefined and on an identifier with an absent version component
serializeAssetName(maybeAsset) ==
  IF maybeAsset = Undefined \/ Len(maybeAsset[1].version) /= 3
  THEN [ok |-> FALSE, value |-> <<>>]
  ELSE [ok |-> TRUE,
        value |-> maybeAsset[1].name \o <<"@">> \o versionToString(maybeAsset[1].version)]

\* helpers/Version isVersionPreciseEnough: all three components present
isVersionPreciseEnough(asset) == Len(asset.version) = 3

RECURSIVE compareVersions(_, _)
\* negative when a is newer than b, positive when older, 0 when equal;
\* an absent component sorts after any present one
compareVersions(a, b) ==
  IF a = <<>> /\ b = <<>> THEN 0
  ELSE IF a = <<>> THEN 1
  ELSE IF b = <<>> THEN -1
  ELSE IF Head(a) > Head(b) THEN -1
  ELSE IF Head(a) < Head(b) THEN 1
  ELSE compareVersions(Tail(a), Tail(b))

\* AssetComparator.compare: descending by version, newest first
compare(a, b) == compareVersions(a.version, b.version)

\* AssetPredicate.matches: every present component of the requested version
\* equals the candidate's
matches(requestedAsset, asset) ==
  \A i \in 1..Len(requestedAsset.version) :
    i <= Len(asset.version) /\ asset.version[i] = requestedAsset.version[i]

RECURSIVE insertSorted(_, _)
insertSorted(x, sorted) ==
  IF sorted = <<>> THEN <<x>>
  ELSE IF compare(sorted[Len(sorted)], x) <= 0 THEN Append(sorted, x)
  ELSE Append(insertSorted(x, SubSeq(sorted, 1, Len(sorted) - 1)), sorted[Len(sorted)])

\* the array left in the order it was listed in
sortSkipped(s) == s

RECURSIVE sort(_)
\* Array.prototype.sort with AssetComparator.compare (stable)
sort(s) ==
  IF s = <<>> THEN <<>>
  ELSE insertSorted(s[Len(s)], sort(SubSeq(s, 1, Len(s) - 1)))

\* Array.prototype.filter
filter(s, Keep(_)) == SelectSeq(s, Keep)

\* Array.prototype.find: the first element satisfying the test, or undefined
find(s, Test(_)) ==
  LET hits == filter(s, Test) IN IF hits = <<>> THEN Undefined ELSE Some(hits[1])

(***************************************************************************)
(* expand.ts                                                               *)
(***************************************************************************)

\* findBestMatchingCandidate without the sort of line 49: the first listed match
findBestMatchingCandidateUnsorted(all, requestedAsset) ==
  LET assets == [i \in 1..Len(all) |-> parseFromStorageName(all[i].name)]
      SameName(p) == p.name = requestedAsset.name
      Matching(asset) == matches(requestedAsset, asset)
      candidates == filter(filter(assets, SameName), Matching)
  IN  IF candidates = <<>> THEN Undefined ELSE Some(candidates[1])

\* findBestMatchingCandidate: the best match, or undefined
findBestMatchingCandidate(all, requestedAsset) ==
  LET assets == [i \in 1..Len(all) |-> parseFromStorageName(all[i].name)]
      SameName(p) == p.name = requestedAsset.name
      eligibleAssetNamesOrdered == sort(filter(assets, SameName))
      Matching(asset) == matches(requestedAsset, asset)
      candidates == filter(eligibleAssetNamesOrdered, Matching)
  IN  IF candidates = <<>> THEN Undefined ELSE Some(candidates[1])

\* the ?.defaultPath of the first catalog entry with the given storage name
defaultPathOf(all, storageName) ==
  LET Named(p) == p.name = storageName
      found == find(all, Named)
  IN  IF found = Undefined THEN Undefined ELSE found[1].defaultPath

\* computeUriPath with the operands of || at line 82 swapped: the default
\* path wins over the requested one
computeUriPathDefaultFirst(all, requestedAsset, candidateAsset) ==
  LET serialized == serializeAssetName(candidateAsset)
      assetStorageName == serialized.value
      defaultPath == defaultPathOf(all, assetStorageName)
      hasPath == requestedAsset.path /= <<>> \/ Truthy(defaultPath)
  IN  IF ~serialized.ok THEN [ok |-> FALSE, value |-> <<>>]
      ELSE IF ~hasPath THEN [ok |-> TRUE, value |-> <<>>]
      ELSE [ok |-> TRUE,
            value |-> <<"/">> \o assetStorageName \o
                      (IF Truthy(defaultPath) THEN <<"/">> \o defaultPath[1]
                       ELSE requestedAsset.path)]

\* computeUriPath without the hasPath check of lines 76-80
computeUriPathUnchecked(all, requestedAsset, candidateAsset) ==
  LET serialized == serializeAssetName(candidateAsset)
      assetStorageName == serialized.value
      defaultPath == defaultPathOf(all, assetStorageName)
  IN  IF ~serialized.ok THEN [ok |-> FALSE, value |-> <<>>]
      ELSE [ok |-> TRUE,
            value |-> <<"/">> \o assetStorageName \o
                      (IF requestedAsset.path /= <<>> THEN requestedAsset.path
                       ELSE <<"/">> \o (IF Truthy(defaultPath) THEN defaultPath[1]
                                        ELSE <<"undefined">>))]

\* computeUriPath: the target URI, '' when no path is resolvable; throws when
\* the candidate cannot be serialized
computeUriPath(all, requestedAsset, candidateAsset) ==
  LET serialized == serializeAssetName(candidateAsset)
      assetStorageName == serialized.value
      defaultPath == defaultPathOf(all, assetStorageName)
      hasPath == requestedAsset.path /= <<>> \/ Truthy(defaultPath)
  IN  IF ~serialized.ok THEN [ok |-> FALSE, value |-> <<>>]
      ELSE IF ~hasPath THEN [ok |-> TRUE, value |-> <<>>]
      ELSE [ok |-> TRUE,
            value |-> <<"/">> \o assetStorageName \o
                      (IF requestedAsset.path /= <<>> THEN requestedAsset.path
                       ELSE <<"/">> \o defaultPath[1])]

\* assetDefaultPath matching on the name alone: the default path of the
\* first stored version of the asset
assetDefaultPathAnyVersion(all, requestedAsset) ==
  IF requestedAsset.name = <<>> \/ requestedAsset.version = <<>> THEN <<>>
  ELSE LET SameName(p) == parseFromStorageName(p.name).name = requestedAsset.name
           found == find(all, SameName)
       IN  IF found /= Undefined /\ Truthy(found[1].defaultPath)
           THEN found[1].defaultPath[1] ELSE <<>>

\* assetDefaultPath: the default path of the exact asset, '' when none
assetDefaultPath(all, requestedAsset) ==
  IF requestedAsset.name = <<>> \/ requestedAsset.version = <<>> THEN <<>>
  ELSE LET d == defaultPathOf(all, requestedAsset.name \o <<"@">> \o
                                   versionToString(requestedAsset.version))
       IN  IF Truthy(d) THEN d[1] ELSE <<>>

\* helpers/Env VOLUME_MOUNT_PATH
VOLUME_MOUNT_PATH == <<"/", "assets">>

\* the content of a stored file that is not empty, one distinct text per path
Content(path) == <<"content of">> \o path

\* helpers/File readFile: the content of the file as a string ('' for an
\* empty file), or a failure
readFile(fs, path) ==
  IF path \in DOMAIN fs /\ fs[path] /= "absent"
  THEN [ok |-> TRUE, value |-> IF fs[path] = "empty" THEN <<>> ELSE Content(path)]
  ELSE [ok |-> FALSE, value |-> <<>>]

\* r.uri.toString().match(/\.min\.(?:js|mjs|css)$/)
isMinificationRequested(u) ==
  \/ EndsWith(u, <<".", "min", ".", "js">>)
  \/ EndsWith(u, <<".", "min", ".", "mjs">>)
  \/ EndsWith(u, <<".", "min", ".", "css">>)

\* helpers/Minify isJsURI, isCssURI
isJsURI(u) == EndsWith(u, <<".", "js">>) \/ EndsWith(u, <<".", "mjs">>)
isCssURI(u) == EndsWith(u, <<".", "css">>)

\* helpers/Minify resolveNonMinifiedURI: x.min.js -> x.js
resolveNonMinifiedURI(u) ==
  IF Len(u) >= 4 /\ u[Len(u) - 3] = "." /\ u[Len(u) - 2] = "min"
  THEN SubSeq(u, 1, Len(u) - 4) \o SubSeq(u, Len(u) - 1, Len(u))
  ELSE u

\* helpers/Minify minifyJS, minifyCSS: pure text transforms; the minified
\* form of an empty text is empty
minifyJS(text) == IF text = <<>> THEN <<>> ELSE <<"minifyJS(">> \o text \o <<")">>
minifyCSS(text) == IF text = <<>> THEN <<>> ELSE <<"minifyCSS(">> \o text \o <<")">>

\* the etag package
etag(text) == <<"etag(">> \o text \o <<")">>

\* the terminal calls on the request object, each with the response headers
\* that were set when it was made
Return(status, body, hs) == [op |-> "return", status |-> status, arg |-> body, headers |-> hs]
InternalRedirect(target, hs) ==
  [op |-> "internalRedirect", status |-> 0, arg |-> target, headers |-> hs]

NotFoundURI == <<"/", "404", ".", "html">>

\* what a run of (a part of) expand did to the request object
Effect(cs, hs, n, lg) ==
  [calls |-> cs, headers |-> hs, listings |-> n, log |-> lg, caught |-> FALSE, branch |-> "none"]

\* handleNotFound, after the effect e
handleNotFound(e) == [e EXCEPT !.calls = Append(@, InternalRedirect(NotFoundURI, e.headers))]

\* a catch block that logs the error and leaves the request unanswered
catchErrorSwallowed(e) == [e EXCEPT !.caught = TRUE]

\* the catch block of expand, lines 202-205, after the effect e of the part
\* of the try block that ran
catchError(e) == handleNotFound([e EXCEPT !.caught = TRUE])

\* redirectOrResolve setting the CORS headers on the 302 branch only
redirectOrResolveCorsOn302(e, cors, resolve, path) ==
  LET hs == IF Truthy(cors)
            THEN e.headers \cup {<<"access-control-allow-origin", <<"*">> >>,
                                 <<"access-control-allow-headers", <<"*">> >>}
            ELSE e.headers
  IN  IF Truthy(resolve)
      THEN [e EXCEPT !.calls = Append(@, InternalRedirect(path, e.headers))]
      ELSE [e EXCEPT !.headers = hs, !.calls = Append(@, Return(302, path, hs))]

\* redirectOrResolve, after the effect e
redirectOrResolve(e, cors, resolve, path) ==
  LET hs == IF Truthy(cors)
            THEN e.headers \cup {<<"access-control-allow-origin", <<"*">> >>,
                                 <<"access-control-allow-headers", <<"*">> >>}
            ELSE e.headers
  IN  IF Truthy(resolve)
      THEN [e EXCEPT !.headers = hs, !.calls = Append(@, InternalRedirect(path, hs))]
      ELSE [e EXCEPT !.headers = hs, !.calls = Append(@, Return(302, path, hs))]

\* expand, lines 134-167: the minification case of a complete URI
expandMinification(u, fs) ==
  LET first   == readFile(fs, VOLUME_MOUNT_PATH \o u)
      source1 == IF first.ok THEN Some(first.value) ELSE Undefined
      second  == readFile(fs, VOLUME_MOUNT_PATH \o resolveNonMinifiedURI(u))
      source2 == IF second.ok THEN Some(second.value) ELSE source1
      text    == IF Truthy(source2) THEN source2[1] ELSE <<>>
      minified == IF isJsURI(u) THEN minifyJS(text)
                  ELSE IF isCssURI(u) THEN minifyCSS(text)
                  ELSE text
      tagged  == {<<"cache-tag", <<"minified asset">> >>, <<"etag", etag(minified)>>}
  IN  IF Truthy(source1)
      THEN Effect(<<Return(200, source1[1], {})>>, {}, 0, <<>>)
      ELSE Effect(<<Return(200, minified, tagged)>>, tagged, 0, <<>>)

\* the complete case without the serveFiles test of line 169
expandCompleteAlwaysServe(u, fs, serve) ==
  LET e == IF isMinificationRequested(u) THEN expandMinification(u, fs)
           ELSE Effect(<<>>, {}, 0, <<>>)
      file == readFile(fs, VOLUME_MOUNT_PATH \o u)
  IN  IF file.ok THEN [e EXCEPT !.calls = Append(@, Return(200, file.value, e.headers))]
      ELSE catchError(e)

\* expand, lines 132-176: the URI is complete
expandComplete(u, fs, serve) ==
  LET e == IF isMinificationRequested(u) THEN expandMinification(u, fs)
           ELSE Effect(<<>>, {}, 0, <<>>)
      file == readFile(fs, VOLUME_MOUNT_PATH \o u)
  IN  IF Truthy(serve)
      THEN IF file.ok THEN [e EXCEPT !.calls = Append(@, Return(200, file.value, e.headers))]
           ELSE catchError(e)   \* readFile throws
      ELSE handleNotFound(e)

\* expand, lines 178-187: the version is imprecise
expandImprecise(all, requestedAsset, cors, resolve) ==
  LET candidateAsset == findBestMatchingCandidate(all, requestedAsset)
      newPath == computeUriPath(all, requestedAsset, candidateAsset)
      \* computeUriPath lists the catalog after it serialized the candidate
      e == Effect(<<>>, {}, IF newPath.ok THEN 2 ELSE 1, <<candidateAsset>>)
  IN  IF ~newPath.ok THEN catchError(e)   \* serializeAssetName throws
      ELSE IF newPath.value = <<>> THEN handleNotFound(e)
      ELSE redirectOrResolve(e, cors, resolve, newPath.value)

\* the precise branch redirecting to the asset without its default path
expandPreciseBareTarget(all, requestedAsset, cors, resolve) ==
  LET assetPath == assetDefaultPath(all, requestedAsset)
      e == Effect(<<>>, {}, 1, <<>>)
      newPath == <<"/">> \o requestedAsset.name \o <<"@">> \o
                 versionToString(requestedAsset.version)
  IN  IF assetPath = <<>> THEN handleNotFound(e)
      ELSE redirectOrResolve(e, cors, resolve, newPath)

\* expand, lines 188-198: the version is precise, the path is absent
expandPrecise(all, requestedAsset, cors, resolve) ==
  LET assetPath == assetDefaultPath(all, requestedAsset)
      listed == IF requestedAsset.name = <<>> \/ requestedAsset.version = <<>> THEN 0 ELSE 1
      e == Effect(<<>>, {}, listed, <<>>)
      newPath == <<"/">> \o requestedAsset.name \o <<"@">> \o
                 versionToString(requestedAsset.version) \o <<"/">> \o assetPath
  IN  IF assetPath = <<>> THEN handleNotFound(e)
      ELSE redirectOrResolve(e, cors, resolve, newPath)

\* expand taking a URI that asks for minification as never complete
expandMinifiedIncomplete(u, all, fs, serve, cors, resolve) ==
  LET requestedAsset == parseFromUrl(u)
      isVersionPrecise == isVersionPreciseEnough(requestedAsset)
      isURIComplete ==
        requestedAsset.path /= <<>> /\ isVersionPrecise /\ ~isMinificationRequested(u)
      needsRedirect == ~isURIComplete
  IN  IF ~needsRedirect
      THEN [expandComplete(u, fs, serve) EXCEPT !.branch = "complete"]
      ELSE IF ~isVersionPrecise
      THEN [expandImprecise(all, requestedAsset, cors, resolve) EXCEPT !.branch = "imprecise"]
      ELSE IF requestedAsset.path = <<>>
      THEN [expandPrecise(all, requestedAsset, cors, resolve) EXCEPT !.branch = "precise"]
      ELSE [handleNotFound(Effect(<<>>, {}, 0, <<>>)) EXCEPT !.branch = "catch-all"]

\* expand: everything the handler does to the request object
expand(u, all, fs, serve, cors, resolve) ==
  LET requestedAsset == parseFromUrl(u)
      isVersionPrecise == isVersionPreciseEnough(requestedAsset)
      isURIComplete == requestedAsset.path /= <<>> /\ isVersionPrecise
      needsRedirect == ~isURIComplete
  IN  IF ~needsRedirect
      THEN [expandComplete(u, fs, serve) EXCEPT !.branch = "complete"]
      ELSE IF ~isVersionPrecise
      THEN [expandImprecise(all, requestedAsset, cors, resolve) EXCEPT !.branch = "imprecise"]
      ELSE IF requestedAsset.path = <<>>
      THEN [expandPrecise(all, requestedAsset, cors, resolve) EXCEPT !.branch = "precise"]
      ELSE [handleNotFound(Effect(<<>>, {}, 0, <<>>)) EXCEPT !.branch = "catch-all"]

\* the listed array reversed in place
listedAfterExpandReversed(all, u) == [i \in 1..Len(all) |-> all[Len(all) + 1 - i]]

\* the array allStoredAssets(r) returned, as expand leaves it: the map and
\* filter calls of lines 43-53 build new arrays and sort orders the array
\* filter returned; find at lines 74 and 99 only reads
listedAfterExpand(all, u) == all

(***************************************************************************)
(* The inputs: catalogs, file stores, request URIs                         *)
(***************************************************************************)

\* the versions of asset "a" that may be stored
StoredVersions == {<<1, 0, 0>>, <<1, 0, 1>>, <<1, 1, 0>>, <<2, 0, 0>>}

DefaultPaths == {Undefined, Some(<<"index", ".", "css">>)}

StoredAsset(name, defaultPath) == [name |-> name, defaultPath |-> defaultPath]

\* the entries a catalog may hold: asset "a" in several versions, with or
\* without a default path, and a newer asset of another name
StoredAssetPool ==
  {StoredAsset(<<"a", "@">> \o versionToString(v), d) : v \in StoredVersions, d \in DefaultPaths}
  \cup {StoredAsset(<<"b", "@", "3", ".", "0", ".", "0">>, Some(<<"index", ".", "css">>))}

\* the catalogs: at most MaxCatalog entries, in any order, one per storage name
Catalogs ==
  UNION {{c \in [1..n -> StoredAssetPool] :
            \A i, j \in 1..n : i /= j => c[i].name /= c[j].name} : n \in 0..MaxCatalog}

\* entries whose storage name is not name@major.minor.patch: a version with
\* its minor and patch missing, and one with a token that is no number
MalformedPool ==
  {StoredAsset(<<"a", "@", "3">>, d) : d \in DefaultPaths}
  \cup {StoredAsset(<<"a", "@", "x", ".", "0", ".", "0">>, Undefined)}

\* the catalogs holding at least one malformed entry
CorruptCatalogs ==
  UNION {{c \in [1..n -> StoredAssetPool \cup MalformedPool] :
            /\ \A i, j \in 1..n : i /= j => c[i].name /= c[j].name
            /\ \E i \in 1..n : c[i] \in MalformedPool} : n \in 1..MaxCatalog}

\* the files the volume may hold: a minified script and its source
FilePaths ==
  {VOLUME_MOUNT_PATH \o <<"/", "a", "@", "1", ".", "0", ".", "0", "/", "x", ".", "min", ".", "js">>,
   VOLUME_MOUNT_PATH \o <<"/", "a", "@", "1", ".", "0", ".", "0", "/", "x", ".", "js">>}

\* the storage volumes: each file is there or not, and the minified one,
\* whose content decides the branch taken at line 144, may be empty
FileStores ==
  {fs \in [FilePaths -> {"absent", "empty", "full"}] :
     \A p \in FilePaths : fs[p] = "empty" => isMinificationRequested(p)}

PreciseVersions == StoredVersions \cup {<<2, 0, 1>>}

\* the imprecise versions a request may carry: none, every proper prefix of
\* a version, and one with a malformed token
ImpreciseVersionStrings ==
  {versionToString(SubSeq(v, 1, k)) : v \in PreciseVersions, k \in 0..2}
  \cup {<<"1", ".", "x">>}

RequestPaths ==
  {<<>>,
   <<"/", "x", ".", "js">>,
   <<"/", "x", ".", "min", ".", "js">>,
   <<"/", "x", ".", "min", ".", "mjs">>,
   <<"/", "x", ".", "min", ".", "css">>}

RequestURI(name, versionString, path) ==
  <<"/">> \o name \o (IF versionString = <<>> THEN <<>> ELSE <<"@">> \o versionString) \o path

\* the version whose files may be stored, and one that has none
FileVersions == {<<1, 0, 0>>, <<2, 0, 1>>}

\* requests for asset "a": every precise version without a path, the
\* versions of the files with every path, every imprecise version without a
\* path and with one
RequestURIs ==
  {RequestURI(<<"a">>, versionToString(v), <<>>) : v \in PreciseVersions}
  \cup {RequestURI(<<"a">>, versionToString(v), p) : v \in FileVersions, p \in RequestPaths}
  \cup {RequestURI(<<"a">>, v, p) :
          v \in ImpreciseVersionStrings, p \in {<<>>, <<"/", "x", ".", "min", ".", "js">>}}

(***************************************************************************)
(* The metadata script (src/unnamed/part_000)                              *)
(***************************************************************************)

MaxDirectories == 2

\* the directories find lists under A7_VOLUME_MOUNT_PATH, line 53
Directories == 1..MaxDirectories

\* the values of A7_PATH_AUTO_EXPAND_INIT: the two of line 24, another one,
\* and unset
InitModes == {"true", "always", "false", ""}

\* line 24: the guard that bypasses the generation
bypasses(mode) == mode /= "true" /\ mode /= "always"

\* a loop generating every metadata file, stored or not
generatesRegardless(mode, exists) == TRUE

\* line 57: the loop generates the metadata file of a directory
generates(mode, exists) == mode = "always" \/ ~exists

\* the shell the body of the while loop runs in: the loop is the last
\* command of the pipeline of line 53, which runs in a subshell
loopShell == "subshell"

\* the task directoryEntries "$directory" "$metadata_filepath" &, line 59
Task(state, parent) == [state |-> state, parent |-> parent]

NoTask == Task("none", "none")

\* the script has run and returned
ScriptOver ==
  /\ initMode = "false"
  /\ metadata = <<>>
  /\ visited = <<>>
  /\ tasks = <<>>
  /\ spc = "returned"
  /\ output = <<>>

\* the service has no request yet
ServiceIdle ==
  /\ catalog = <<>>
  /\ files = [p \in FilePaths |-> "absent"]
  /\ serveFiles = Undefined
  /\ corsAll = Undefined
  /\ autoResolve = Undefined
  /\ pc = "idle"
  /\ uri = <<>>
  /\ calls = <<>>
  /\ headersOut = {}
  /\ listings = 0
  /\ log = <<>>
  /\ caught = FALSE
  /\ branch = "none"

\* the script starts: each directory has a metadata file of an earlier run
\* or none
InitScript ==
  /\ ServiceIdle
  /\ initMode \in InitModes
  /\ metadata \in [Directories -> {"absent", "stale"}]
  /\ visited = [d \in Directories |-> "no"]
  /\ tasks = [d \in Directories |-> NoTask]
  /\ spc = "guard"
  /\ output = <<>>

\* lines 24-27: the variable is neither true nor always, the script returns
Bypass ==
  /\ spc = "guard"
  /\ bypasses(initMode)
  /\ output' = Append(output, "bypass")
  /\ spc' = "returned"
  /\ UNCHANGED <<initMode, metadata, visited, tasks, expandVars>>

\* lines 24-52: the guard is passed, the generation is announced
Announce ==
  /\ spc = "guard"
  /\ ~bypasses(initMode)
  /\ output' = Append(output, "Generating metadata files")
  /\ spc' = "loop"
  /\ UNCHANGED <<initMode, metadata, visited, tasks, expandVars>>

\* lines 53-61: the loop reads the next directory find lists, tests its
\* metadata file and starts the task in the background
Visit(d) ==
  /\ spc = "loop"
  /\ visited[d] = "no"
  /\ LET exists == metadata[d] /= "absent"
     IN  /\ visited' = [visited EXCEPT ![d] = IF exists THEN "exists" ELSE "missing"]
         /\ tasks' = [tasks EXCEPT ![d] = IF generates(initMode, exists)
                                          THEN Task("started", loopShell)
                                          ELSE @]
  /\ output' = Append(output, "directory")
  /\ UNCHANGED <<initMode, metadata, spc, expandVars>>

\* line 62: find has listed every directory, the pipeline is over
EndLoop ==
  /\ spc = "loop"
  /\ \A d \in Directories : visited[d] /= "no"
  /\ output' = Append(output, "All metadata files generated")
  /\ spc' = "wait"
  /\ UNCHANGED <<initMode, metadata, visited, tasks, expandVars>>

\* line 66: wait returns once every background job of the shell that runs
\* it has terminated
Wait ==
  /\ spc = "wait"
  /\ \A d \in Directories : tasks[d].parent = "main" => tasks[d].state = "done"
  /\ spc' = "waited"
  /\ UNCHANGED <<initMode, metadata, visited, tasks, output, expandVars>>

\* line 67
Complete ==
  /\ spc = "waited"
  /\ output' = Append(output, "All tasks completed")
  /\ spc' = "completed"
  /\ UNCHANGED <<initMode, metadata, visited, tasks, expandVars>>

\* line 46: the task opens the metadata file for writing, which creates it
\* or empties it
TaskOpen(d) ==
  /\ tasks[d].state = "started"
  /\ tasks' = [tasks EXCEPT ![d].state = "writing"]
  /\ metadata' = [metadata EXCEPT ![d] = "partial"]
  /\ UNCHANGED <<initMode, visited, spc, output, expandVars>>

\* lines 42-46: find, du and awk have written the entries, the task ends
TaskEnd(d) ==
  /\ tasks[d].state = "writing"
  /\ tasks' = [tasks EXCEPT ![d].state = "done"]
  /\ metadata' = [metadata EXCEPT ![d] = "fresh"]
  /\ UNCHANGED <<initMode, visited, spc, output, expandVars>>

NextScript ==
  \/ Bypass
  \/ Announce
  \/ \E d \in Directories : Visit(d)
  \/ EndLoop
  \/ Wait
  \/ Complete
  \/ \E d \in Directories : TaskOpen(d)
  \/ \E d \in Directories : TaskEnd(d)

SpecScript == InitScript /\ [][NextScript]_vars

(***************************************************************************)
(* The state machine                                                       *)
(***************************************************************************)

Init ==
  /\ ScriptOver
  /\ catalog \in Catalogs
  /\ files \in FileStores
  /\ serveFiles \in EnvValues
  /\ corsAll \in EnvValues
  /\ autoResolve \in EnvValues
  /\ pc = "idle"
  /\ uri = <<>>
  /\ calls = <<>>
  /\ headersOut = {}
  /\ listings = 0
  /\ log = <<>>
  /\ caught = FALSE
  /\ branch = "none"

\* a request for u arrives and expand handles it
Expand(u) ==
  /\ pc = "idle"
  /\ \E e \in {expand(u, catalog, files, serveFiles, corsAll, autoResolve)} :
         /\ calls' = e.calls
         /\ headersOut' = e.headers
         /\ listings' = e.listings
         /\ log' = e.log
         /\ caught' = e.caught
         /\ branch' = e.branch
  /\ catalog' = listedAfterExpand(catalog, u)
  /\ uri' = u
  /\ pc' = "done"
  /\ UNCHANGED <<files, serveFiles, corsAll, autoResolve, scriptVars>>

\* the request is over and its request object is discarded
FinalizeRequest ==
  /\ pc = "done"
  /\ pc' = "idle"
  /\ uri' = <<>>
  /\ calls' = <<>>
  /\ headersOut' = {}
  /\ listings' = 0
  /\ log' = <<>>
  /\ caught' = FALSE
  /\ branch' = "none"
  /\ UNCHANGED <<catalog, files, serveFiles, corsAll, autoResolve, scriptVars>>

Next ==
  \/ \E u \in RequestURIs : Expand(u)
  \/ FinalizeRequest

Spec == Init /\ [][Next]_vars

\* the service over a catalog with malformed entries
InitCorrupt ==
  /\ ScriptOver
  /\ catalog \in CorruptCatalogs
  /\ files \in FileStores
  /\ serveFiles \in EnvValues
  /\ corsAll \in EnvValues
  /\ autoResolve \in EnvValues
  /\ pc = "idle"
  /\ uri = <<>>
  /\ calls = <<>>
  /\ headersOut = {}
  /\ listings = 0
  /\ log = <<>>
  /\ caught = FALSE
  /\ branch = "none"

SpecCorrupt == InitCorrupt /\ [][Next]_vars

\* the service over an empty volume: every catalog, in every listing order,
\* and every setting of the flags
InitListing ==
  /\ ScriptOver
  /\ catalog \in Catalogs
  /\ files = [p \in FilePaths |-> "absent"]
  /\ serveFiles \in EnvValues
  /\ corsAll \in EnvValues
  /\ autoResolve \in EnvValues
  /\ pc = "idle"
  /\ uri = <<>>
  /\ calls = <<>>
  /\ headersOut = {}
  /\ listings = 0
  /\ log = <<>>
  /\ caught = FALSE
  /\ branch = "none"

SpecListing == InitListing /\ [][Next]_vars

(***************************************************************************)
(* Vocabulary of the properties                                            *)
(***************************************************************************)

Done == pc = "done"

\* what each request URI asks for, by construction of the URI
RequestTable ==
  {[uri |-> RequestURI(<<"a">>, versionToString(SubSeq(v, 1, k)), p),
    name |-> <<"a">>, version |-> SubSeq(v, 1, k), path |-> p] :
     v \in PreciseVersions, k \in 0..3, p \in RequestPaths}
  \cup {[uri |-> RequestURI(<<"a">>, <<"1", ".", "x">>, p),
         name |-> <<"a">>, version |-> <<1>>, path |-> p] : p \in RequestPaths}

\* what the handled request asked for
Asked == CHOOSE q \in RequestTable : q.uri = uri

AskedPrecise == Len(Asked.version) = 3
AskedComplete == AskedPrecise /\ Asked.path /= <<>>
AskedMinified ==
  Asked.path \in {<<"/", "x", ".", "min", ".", "js">>,
                  <<"/", "x", ".", "min", ".", "mjs">>,
                  <<"/", "x", ".", "min", ".", "css">>}

\* the name and version a catalog entry stands for, by construction of its
\* storage name
StoredIdentities ==
  {[storageName |-> id.name \o <<"@">> \o versionToString(id.version),
    name |-> id.name, version |-> id.version] :
     id \in {Asset(<<"a">>, v, <<>>) : v \in StoredVersions}
            \cup {Asset(<<"b">>, <<3, 0, 0>>, <<>>)}}

Identity(entry) == CHOOSE id \in StoredIdentities : id.storageName = entry.name

\* the catalog positions holding a version of the asked name that agrees
\* with every component the request has present
Satisfying ==
  {i \in 1..Len(catalog) :
     /\ Identity(catalog[i]).name = Asked.name
     /\ \A k \in 1..Len(Asked.version) :
          Identity(catalog[i]).version[k] = Asked.version[k]}

\* v is the same version as w or a newer one, as (major, minor, patch) triples
NewerOrSame(v, w) ==
  \/ v[1] > w[1]
  \/ v[1] = w[1] /\ v[2] > w[2]
  \/ v[1] = w[1] /\ v[2] = w[2] /\ v[3] >= w[3]

\* the default path registered for the catalog entry of asset m
RegisteredDefault(m) ==
  LET at == {i \in 1..Len(catalog) :
               Identity(catalog[i]).name = m.name /\ Identity(catalog[i]).version = m.version}
  IN  IF at = {} THEN Undefined ELSE catalog[CHOOSE i \in at : TRUE].defaultPath

IsNotFound(c) == c.op = "internalRedirect" /\ c.arg = NotFoundURI
IsServe(c) == c.op = "return" /\ c.status = 200
IsRedirect(c) ==
  \/ c.op = "return" /\ c.status = 302
  \/ c.op = "internalRedirect" /\ c.arg /= NotFoundURI
IsRedirectTo(c, target) == IsRedirect(c) /\ c.arg = target

OutcomeNotFound == Len(calls) = 1 /\ IsNotFound(calls[1])
OutcomeRedirectTo(target) == Len(calls) = 1 /\ IsRedirectTo(calls[1], target)

\* the best match the Resolver logged for the handled request
Resolved == log /= <<>> /\ log[1] /= Undefined
BestMatch == log[1][1]

(***************************************************************************)
(* Properties                                                              *)
(***************************************************************************)

\* C1: when expand has returned, exactly one terminal call (r.return 200,
\* r.return 302 or r.internalRedirect) was made on the request, for every
\* request, complete minification URIs included.
C1_ExactlyOneTerminalAction == Done => Len(calls) = 1

\* C2: the result of findBestMatchingCandidate is the newest stored version of
\* the asked name that agrees with the request on every component the
\* request has present: it is one of the satisfying entries, none of them is
\* newer, and it is "no match" exactly when no entry satisfies the constraint.
C2_NewestMatchingVersion ==
  (Done /\ log /= <<>>) =>
    /\ (log[1] = Undefined) <=> (Satisfying = {})
    /\ log[1] /= Undefined =>
         /\ \E i \in Satisfying :
              /\ Identity(catalog[i]).name = BestMatch.name
              /\ Identity(catalog[i]).version = BestMatch.version
         /\ \A j \in Satisfying :
              NewerOrSame(BestMatch.version, Identity(catalog[j]).version)

\* the resolver chose among several satisfying versions, and the one listed
\* first in the catalog is not the one it chose
C2_Witness ==
  /\ Done /\ Resolved
  /\ Len(Asked.version) = 1
  /\ \E i \in Satisfying :
       /\ \A j \in Satisfying : i <= j
       /\ Identity(catalog[i]).version /= BestMatch.version

\* C3: an imprecise request with a best match m is redirected to
\* /serialize(m) followed by the request's sub-path if it has one, and by
\* the default path registered for m otherwise.
C3_ImpreciseRedirectTarget ==
  (/\ Done /\ ~AskedPrecise /\ Resolved
   /\ (Asked.path /= <<>> \/ RegisteredDefault(BestMatch) /= Undefined)) =>
    OutcomeRedirectTo(
      <<"/">> \o BestMatch.name \o <<"@">> \o versionToString(BestMatch.version) \o
      (IF Asked.path /= <<>> THEN Asked.path
       ELSE <<"/">> \o RegisteredDefault(BestMatch)[1]))

\* a request for a major version with a sub-path was redirected to a best
\* match that has a default path of its own
C3_Witness ==
  /\ Done /\ Resolved
  /\ Len(Asked.version) = 1 /\ Asked.path /= <<>>
  /\ RegisteredDefault(BestMatch) /= Undefined
  /\ Cardinality(Satisfying) > 1
  /\ Len(calls) = 1 /\ IsRedirect(calls[1])

\* C4: a request for a name no catalog entry has ends in NotFound, whatever
\* its version and sub-path: no Redirect and no 200 is ever sent for it.
C4_UnknownNameNotFound ==
  (Done /\ \A i \in 1..Len(catalog) : Identity(catalog[i]).name /= Asked.name) =>
    /\ calls /= <<>>
    /\ \A i \in 1..Len(calls) : IsNotFound(calls[i])

\* C5: an imprecise request without sub-path whose best match has no
\* registered default path ends in NotFound, without a Redirect.
C5_NoPathNoDefaultNotFound ==
  (/\ Done /\ ~AskedPrecise /\ Asked.path = <<>> /\ Resolved
   /\ RegisteredDefault(BestMatch) = Undefined) => OutcomeNotFound

\* the best match has no default path although another stored version of
\* the same asset has one
C5_Witness ==
  /\ Done /\ ~AskedPrecise /\ Asked.path = <<>> /\ Resolved
  /\ RegisteredDefault(BestMatch) = Undefined
  /\ \E i \in 1..Len(catalog) :
       Identity(catalog[i]).name = Asked.name /\ catalog[i].defaultPath /= Undefined
  /\ OutcomeNotFound

\* C6: a precise request without sub-path is redirected to
\* /name@major.minor.patch/d when the catalog has exactly that asset with a
\* default path d, and ends in NotFound otherwise; the Resolver is not used.
C6_PreciseNoPath ==
  (Done /\ AskedPrecise /\ Asked.path = <<>>) =>
    /\ log = <<>>
    /\ IF RegisteredDefault(Asked) /= Undefined
       THEN OutcomeRedirectTo(<<"/">> \o Asked.name \o <<"@">> \o
                              versionToString(Asked.version) \o <<"/">> \o
                              RegisteredDefault(Asked)[1])
       ELSE OutcomeNotFound

\* the exact version is stored with a default path next to a newer version
\* of the same asset, and the request was redirected
C6_Witness ==
  /\ Done /\ AskedPrecise /\ Asked.path = <<>>
  /\ RegisteredDefault(Asked) /= Undefined
  /\ \E i \in 1..Len(catalog) :
       /\ Identity(catalog[i]).name = Asked.name
       /\ Identity(catalog[i]).version /= Asked.version
       /\ NewerOrSame(Identity(catalog[i]).version, Asked.version)
  /\ Len(calls) = 1 /\ IsRedirect(calls[1])

\* the path of the file a minified path is made from
NonMinified(path) ==
  IF path = <<"/", "x", ".", "min", ".", "js">> THEN <<"/", "x", ".", "js">>
  ELSE IF path = <<"/", "x", ".", "min", ".", "mjs">> THEN <<"/", "x", ".", "mjs">>
  ELSE <<"/", "x", ".", "css">>

\* the stored file at the exact path of the handled URI, and the one its
\* minified form is made from
ExactFile == VOLUME_MOUNT_PATH \o uri
SourceFile ==
  VOLUME_MOUNT_PATH \o
  RequestURI(Asked.name, versionToString(Asked.version), NonMinified(Asked.path))

\* a file exists at the path; what it holds
Stored(path) == path \in DOMAIN files /\ files[path] /= "absent"
Held(path) == IF files[path] = "empty" THEN <<>> ELSE Content(path)

\* the minifier for the kind of the asked path
Minified(text) ==
  IF Asked.path = <<"/", "x", ".", "min", ".", "css">> THEN minifyCSS(text) ELSE minifyJS(text)

\* the content of the file at the exact path, nothing if there is no file
ServedBody == IF Stored(ExactFile) THEN Held(ExactFile) ELSE <<"no such file">>

CorsHeaders ==
  {<<"access-control-allow-origin", <<"*">> >>, <<"access-control-allow-headers", <<"*">> >>}

\* C7 as stated: a complete URI that asks for no minification is never
\* resolved against the catalog nor redirected; it is served with the content
\* of the file at that path when serveFiles is enabled, and ends in NotFound
\* when it is disabled.
C7_CompleteServedWhenEnabled ==
  (Done /\ AskedComplete /\ ~AskedMinified) =>
    /\ listings = 0 /\ log = <<>>
    /\ \A i \in 1..Len(calls) : ~IsRedirect(calls[i])
    /\ IF Truthy(serveFiles)
       THEN Len(calls) = 1 /\ IsServe(calls[1]) /\ calls[1].arg = ServedBody
       ELSE OutcomeNotFound

\* C7 amended: a complete URI that asks for no minification is never resolved
\* against the catalog nor redirected; it is served with the content of the
\* file at that path when serveFiles is enabled and the file can be read, and
\* ends in NotFound when serveFiles is disabled or the read fails.
C7_CompleteServedWhenReadable ==
  (Done /\ AskedComplete /\ ~AskedMinified) =>
    /\ listings = 0 /\ log = <<>>
    /\ \A i \in 1..Len(calls) : ~IsRedirect(calls[i])
    /\ IF Truthy(serveFiles) /\ Stored(ExactFile)
       THEN Len(calls) = 1 /\ IsServe(calls[1]) /\ calls[1].arg = ServedBody
       ELSE OutcomeNotFound

\* a stored file was served at its exact path although the catalog lists the
\* asset with a default path
C7_Witness ==
  /\ Done /\ AskedComplete /\ ~AskedMinified
  /\ Stored(ExactFile) /\ Truthy(serveFiles)
  /\ RegisteredDefault(Asked) /= Undefined
  /\ Len(calls) = 1 /\ IsServe(calls[1]) /\ calls[1].arg = Held(ExactFile)

\* C8: for a complete minification URI a 200 is sent: with the unchanged
\* content of the file at the exact path when a file exists there, and
\* otherwise with the JS or CSS minifier applied to the content of the
\* non-minified file, tagged 'minified asset'; the catalog is not consulted.
C8_MinifiedOrPreMinified ==
  (Done /\ AskedComplete /\ AskedMinified) =>
    /\ listings = 0 /\ log = <<>>
    /\ \A i \in 1..Len(calls) : ~IsRedirect(calls[i])
    /\ Stored(ExactFile) =>
         /\ calls /= <<>> /\ IsServe(calls[1])
         /\ calls[1].arg = Held(ExactFile)
    /\ (~Stored(ExactFile) /\ Stored(SourceFile)) =>
         /\ calls /= <<>> /\ IsServe(calls[1])
         /\ calls[1].arg = Minified(Held(SourceFile))
         /\ <<"cache-tag", <<"minified asset">> >> \in calls[1].headers

\* C9: for a complete minification URI whose file and whose non-minified
\* counterpart both fail to be read, the outcome is NotFound and no 200
\* response is sent.
C9_BothReadsFailNotFound ==
  (Done /\ AskedComplete /\ AskedMinified
   /\ ~Stored(ExactFile) /\ ~Stored(SourceFile)) =>
    /\ calls /= <<>>
    /\ \A i \in 1..Len(calls) : IsNotFound(calls[i])

\* C10: a redirect is an r.internalRedirect when A7_PATH_AUTO_RESOLVE is set
\* and an r.return(302) when it is not; it carries the two wildcard CORS
\* headers, set before the call, exactly when A7_CORS_ALL is set, whatever
\* the redirect strategy; a NotFound response never carries them.
C10_RedirectPolicy ==
  Done =>
    \A i \in 1..Len(calls) :
      /\ IsRedirect(calls[i]) =>
           /\ (calls[i].op = "internalRedirect") <=> Truthy(autoResolve)
           /\ (calls[i].op = "return") <=> ~Truthy(autoResolve)
           /\ IF Truthy(corsAll) THEN CorsHeaders \subseteq calls[i].headers
              ELSE CorsHeaders \cap calls[i].headers = {}
      /\ IsNotFound(calls[i]) => CorsHeaders \cap calls[i].headers = {}

\* an internally resolved redirect carries the CORS headers
C10_Witness ==
  /\ Done /\ Truthy(corsAll) /\ Truthy(autoResolve)
  /\ ~AskedComplete
  /\ Len(calls) = 1 /\ IsRedirect(calls[1])
  /\ calls[1].op = "internalRedirect"
  /\ CorsHeaders \subseteq calls[1].headers


(***************************************************************************)
(* Catalog entries with a malformed storage name                           *)
(***************************************************************************)

\* the storage name of the entry is name@major.minor.patch
WellFormed(entry) == \E id \in StoredIdentities : id.storageName = entry.name

\* C11: a catalog entry whose storage name is not name@major.minor.patch is
\* skipped: the terminal calls of expand are those it makes for the same
\* request over the catalog with its malformed entries removed.
C11_MalformedEntriesSkipped ==
  Done =>
    calls = expand(uri, SelectSeq(catalog, WellFormed), files, serveFiles,
                   corsAll, autoResolve).calls

(***************************************************************************)
(* The listing order of the catalog                                        *)
(***************************************************************************)

\* the catalogs listing the entries of c in another order
Reorderings(c) ==
  {d \in [1..Len(c) -> {c[i] : i \in 1..Len(c)}] :
     \A i \in 1..Len(c) : \E j \in 1..Len(c) : d[j] = c[i]}

\* C12: the outcome of expand does not depend on the order the catalog is
\* listed in: over every permutation of the catalog the same request gets
\* the same terminal calls (action, status, redirect URI, headers).
C12_ListingOrderIrrelevant ==
  Done =>
    \A d \in Reorderings(catalog) :
      expand(uri, d, files, serveFiles, corsAll, autoResolve).calls = calls

\* an imprecise request redirected to an entry listed after an older entry
\* that satisfies it too
C12_Witness ==
  /\ Done
  /\ ~AskedPrecise
  /\ Resolved
  /\ \E i, j \in Satisfying :
        /\ i < j
        /\ Identity(catalog[j]).version = BestMatch.version
  /\ Len(calls) = 1
  /\ IsRedirect(calls[1])

(***************************************************************************)
(* Failures inside expand                                                  *)
(***************************************************************************)

\* the handled request makes a step of expand throw: serializeAssetName at
\* line 71 gets no candidate, or readFile at line 171 finds no file
StepThrows ==
  \/ ~AskedPrecise /\ Satisfying = {}
  \/ AskedComplete /\ Truthy(serveFiles) /\ ~Stored(ExactFile)

\* C13: no failure escapes expand: when a step throws, the catch block runs
\* and the last call on the request is NotFound (the internal redirect to
\* /404.html); expand never returns without a terminal call, and every call
\* is a Serve, a Redirect or NotFound.
C13_NoFailureEscapes ==
  Done =>
    /\ calls /= <<>>
    /\ \A i \in 1..Len(calls) :
          IsServe(calls[i]) \/ IsRedirect(calls[i]) \/ IsNotFound(calls[i])
    /\ caught <=> StepThrows
    /\ caught => IsNotFound(calls[Len(calls)])

\* an imprecise request no catalog entry satisfies: the serializer threw
\* and NotFound was answered
C13_Witness ==
  /\ Done
  /\ ~AskedPrecise
  /\ Satisfying = {}
  /\ caught
  /\ OutcomeNotFound

(***************************************************************************)
(* The catalog snapshot                                                    *)
(***************************************************************************)

CompleteTarget(target) ==
  \E id \in StoredIdentities :
    /\ Len(target) > Len(id.storageName) + 2
    /\ SubSeq(target, 1, Len(id.storageName) + 2) = <<"/">> \o id.storageName \o <<"/">>

\* C15: redirects are one hop: every target expand redirects to is
\* /name@major.minor.patch/path with the three components and a path, and
\* expand on that target, over the same catalog, takes the complete branch
\* and redirects no further.
C15_RedirectsAreOneHop ==
  Done =>
    \A i \in 1..Len(calls) :
      IsRedirect(calls[i]) =>
        /\ CompleteTarget(calls[i].arg)
        /\ \E again \in {expand(calls[i].arg, catalog, files, serveFiles, corsAll, autoResolve)} :
              /\ again.branch = "complete"
              /\ \A j \in 1..Len(again.calls) : ~IsRedirect(again.calls[j])

\* a precise request without a path redirected to the default path of the
\* asset
C15_Witness ==
  /\ Done
  /\ Asked.path = <<>>
  /\ Len(calls) = 1
  /\ IsRedirect(calls[1])
  /\ CompleteTarget(calls[1].arg)
  /\ AskedPrecise

(***************************************************************************)
(* The branches of expand                                                  *)
(***************************************************************************)

\* C16: the last else branch of expand (lines 199-201) is never taken: a
\* handled request took the complete branch when its version is precise
\* and it has a path, the imprecise branch when its version is imprecise,
\* and the precise branch otherwise.
C16_CatchAllUnreachable ==
  /\ branch /= "catch-all"
  /\ Done =>
        branch = IF AskedComplete THEN "complete"
                 ELSE IF ~AskedPrecise THEN "imprecise"
                 ELSE "precise"

\* a request that needs a redirect and was answered NotFound by one of the
\* two redirecting branches
C16_Witness ==
  /\ Done
  /\ ~AskedComplete
  /\ branch \in {"imprecise", "precise"}
  /\ OutcomeNotFound

(***************************************************************************)
(* The metadata script                                                     *)
(***************************************************************************)

Completed == spc = "completed"

Terminated(d) == tasks[d].state \in {"none", "done"}

\* C17: "All tasks completed." is echoed only after every background
\* directoryEntries task the loop started has terminated.
C17_CompletedAfterEveryTask ==
  Completed => \A d \in Directories : Terminated(d)

\* the metadata file of d has been opened for writing by this run
Written(d) == metadata[d] \in {"partial", "fresh"}

\* C18: the metadata file of a directory is written exactly when
\* A7_PATH_AUTO_EXPAND_INIT is always, or is true and the file did not exist
\* when the loop visited the directory; with any other value the loop is
\* never entered and no metadata file is created or modified; with true a
\* file that exists is left as it is.
C18_MetadataWrittenIff ==
  \A d \in Directories :
    /\ tasks[d].state /= "none" <=>
          /\ visited[d] /= "no"
          /\ \/ initMode = "always"
             \/ initMode = "true" /\ visited[d] = "missing"
    /\ Written(d) <=> tasks[d].state \in {"writing", "done"}
    /\ initMode \notin {"true", "always"} =>
          /\ visited[d] = "no"
          /\ spc \in {"guard", "returned"}
          /\ ~Written(d)
    /\ (initMode = "true" /\ visited[d] = "exists") => metadata[d] = "stale"

\* a run with true that is over: the file that was missing is written, the
\* one that existed is the one of the earlier run
C18_Witness ==
  /\ initMode = "true"
  /\ Completed
  /\ \E d, e \in Directories :
        /\ visited[d] = "missing" /\ metadata[d] = "fresh"
        /\ visited[e] = "exists" /\ metadata[e] = "stale"
====
